---- MODULE Spec2Model ----
(***************************************************************************)
(* A model of excel_difference/excel_diff.py: the text normalizer, the     *)
(* similarity scorer, the row and column aligners, the cell classifier     *)
(* and the sheet loop of excel_diff; and of excel_difference/gui.py: the   *)
(* Run handler, the thread it starts and the console redirection.          *)
(*                                                                         *)
(* Python strings are sequences of one-character strings, so that strip,   *)
(* split, lower, the "<-->" substring test and str()/float() are computed  *)
(* character by character as the interpreter computes them.  A cell value  *)
(* is a record [kind, num, chars]: kind "none" is an empty cell (None),    *)
(* "num" a Python int, "str" a Python str.  A float that the code only     *)
(* compares is a pair <<numerator, denominator>>.                          *)
(***************************************************************************)
EXTENDS Integers, Sequences, FiniteSets, TLC

VARIABLES
    pc,              \* position of the operation being run
    raw1, raw2,      \* two raw key cell values handed to normalize_text
    text1, text2,    \* the arguments of calculate_similarity
    similarity,      \* its return value
    value1, value2,  \* the arguments of compare_cells
    result,          \* its return value, or the exception it raised
    color_fill,      \* the return value of get_cell_color(result)
    ws1, ws2,        \* the two worksheets being aligned and compared
    key_column,      \* find_matching_rows: the column holding the row keys
    key_row,         \* find_matching_columns: the row holding the column keys
    ws1_rows, ws2_rows,    \* find_matching_rows: row -> normalized key
    ws1_cols, ws2_cols,    \* find_matching_columns: column -> normalized key
    matches,         \* the dict being built by the running find_matching_*
    used_ws2_rows,   \* find_matching_rows: the rows of ws2 already taken
    used_ws2_cols,   \* find_matching_columns: the columns of ws2 already taken
    row1, col1,      \* the key the running outer loop handled last (0: none)
    last_match,      \* how the last outer-loop step ended: "exact", "fuzzy", "none"
    wb1, wb2,        \* excel_diff: the two loaded workbooks
    actual_key_row, actual_key_column,   \* excel_diff: the keys in use
    sheet_index,     \* excel_diff: how many names of wb1.sheetnames are done
    row_matches, column_matches,         \* excel_diff: the two alignments
    wb_output,       \* excel_diff: the sheets of the output workbook
    data_start_row, output_row, output_col,   \* excel_diff: body position
    stdout,          \* excel_diff: the per-sheet lines it has printed
    best_row, best_col,    \* detect_key_row_column: its two results
    sys_stdout, sys_stderr,      \* gui: what sys.stdout and sys.stderr refer to
    old_stdout, old_stderr,      \* run_difference: the two saved streams
    run_button, status_var,      \* gui: state of the button, text of the status bar
    messagebox,      \* gui: the dialog shown last
    console_text,    \* gui: the lines in the console widget
    terminal,        \* the lines written to the stream sys.stdout started as
    thread_pc,       \* position of the thread run_difference started
    thread_line,     \* _run_difference_thread: header lines printed so far
    progress,        \* excel_diff in that thread: lines printed so far
    after_queue,     \* gui: the callbacks handed to root.after, oldest first
    runs,            \* gui: how many times a difference was started
    saved            \* excel_diff: wb_output.save has written the file

simVars  == <<raw1, raw2, text1, text2, similarity>>
cellVars == <<value1, value2, result, color_fill>>
sheetVars == <<ws1, ws2, key_column, key_row>>
alignVars == <<ws1_rows, ws2_rows, ws1_cols, ws2_cols, matches,
               used_ws2_rows, used_ws2_cols, row1, col1, last_match>>
diffVars == <<wb1, wb2, actual_key_row, actual_key_column, sheet_index,
              row_matches, column_matches, wb_output, data_start_row,
              output_row, output_col, stdout, saved>>
detectVars == <<best_row, best_col>>
guiVars == <<sys_stdout, sys_stderr, old_stdout, old_stderr, run_button,
             status_var, messagebox, console_text, terminal, thread_pc,
             thread_line, progress, after_queue, runs>>
vars == <<pc, simVars, cellVars, sheetVars, alignVars, diffVars, detectVars,
          guiVars>>

(***************************************************************************)
(* Python values                                                           *)
(***************************************************************************)
None   == [kind |-> "none", num |-> 0, chars |-> <<>>]
PyInt(n) == [kind |-> "num", num |-> n, chars |-> <<>>]
PyStr(s) == [kind |-> "str", num |-> 0, chars |-> s]
\* what a variable holds before the operation that assigns it has run
Unset  == [kind |-> "unset", num |-> 0, chars |-> <<>>]
\* the outcome of a call that raised instead of returning
Raised(exc) == [kind |-> "raise", num |-> 0, chars |-> exc]

Range(f) == {f[i] : i \in DOMAIN f}
Abs(n) == IF n < 0 THEN -n ELSE n

Whitespace == {" ", "\t"}
IsSpace(c) == c \in Whitespace
Digits == <<"0", "1", "2", "3", "4", "5", "6", "7", "8", "9">>
IsDigit(c) == \E i \in 1..10 : Digits[i] = c
DigitValue(c) == (CHOOSE i \in 1..10 : Digits[i] = c) - 1

\* str.lstrip / str.rstrip / str.strip with no argument
RECURSIVE LStrip(_)
LStrip(s) ==
    IF s = <<>> THEN <<>>
    ELSE IF IsSpace(Head(s)) THEN LStrip(Tail(s)) ELSE s

RECURSIVE RStrip(_)
RStrip(s) ==
    IF s = <<>> THEN <<>>
    ELSE IF IsSpace(s[Len(s)]) THEN RStrip(SubSeq(s, 1, Len(s) - 1)) ELSE s

Strip(s) == RStrip(LStrip(s))

\* re.sub(r"\s+", " ", s): every maximal run of whitespace becomes one space
RECURSIVE SubWhitespace(_)
SubWhitespace(s) ==
    IF s = <<>> THEN <<>>
    ELSE IF IsSpace(Head(s)) THEN <<" ">> \o SubWhitespace(LStrip(s))
    ELSE <<Head(s)>> \o SubWhitespace(Tail(s))

\* str.lower on the letters the inputs are written with
LowerChar(c) ==
    CASE c = "A" -> "a"
      [] c = "B" -> "b"
      [] c = "C" -> "c"
      [] c = "D" -> "d"
      [] c = "E" -> "e"
      [] OTHER -> c
Lower(s) == [i \in 1..Len(s) |-> LowerChar(s[i])]

\* the longest prefix of s that holds no whitespace
RECURSIVE FirstWord(_)
FirstWord(s) ==
    IF s = <<>> \/ IsSpace(Head(s)) THEN <<>>
    ELSE <<Head(s)>> \o FirstWord(Tail(s))

\* str.split with no argument: the list of maximal whitespace-free runs
RECURSIVE Split(_)
Split(s) ==
    LET t == LStrip(s)
    IN  IF t = <<>> THEN <<>>
        ELSE LET w == FirstWord(t)
             IN  <<w>> \o Split(SubSeq(t, Len(w) + 1, Len(t)))

\* sub in s, for two strings
Contains(s, sub) ==
    \E i \in 1..(Len(s) - Len(sub) + 1) : SubSeq(s, i, i + Len(sub) - 1) = sub

\* str(n) for an int
RECURSIVE NatStr(_)
NatStr(n) ==
    IF n < 10 THEN <<Digits[n + 1]>>
    ELSE NatStr(n \div 10) \o <<Digits[(n % 10) + 1]>>
IntStr(n) == IF n < 0 THEN <<"-">> \o NatStr(-n) ELSE NatStr(n)

\* str(value) for a present value
Str(v) == IF v.kind = "num" THEN IntStr(v.num) ELSE v.chars

\* the value of a string of decimal digits
RECURSIVE DigitsValue(_)
DigitsValue(s) ==
    IF s = <<>> THEN 0
    ELSE 10 * DigitsValue(SubSeq(s, 1, Len(s) - 1)) + DigitValue(s[Len(s)])

AllDigits(s) == s # <<>> /\ \A i \in 1..Len(s) : IsDigit(s[i])

\* float(s) for a str succeeds on: optional whitespace, an optional sign, decimal
\* digits, optional whitespace (the strings of the inputs hold no ".", "e", "_",
\* "inf" or "nan")
FloatParses(s) ==
    LET t == Strip(s)
    IN  \/ AllDigits(t)
        \/ t # <<>> /\ Head(t) \in {"-", "+"} /\ AllDigits(Tail(t))

FloatOfStr(s) ==
    LET t == Strip(s)
    IN  IF Head(t) = "-" THEN -DigitsValue(Tail(t))
        ELSE IF Head(t) = "+" THEN DigitsValue(Tail(t))
        ELSE DigitsValue(t)

\* pd.isna(value) for a scalar cell value
isna(value) == value.kind = "none"

\* float(value), defined where is_numeric(value)
Float(value) == IF value.kind = "num" THEN value.num ELSE FloatOfStr(value.chars)

\* bool(value): None, 0 and "" are falsy
Truthy(value) ==
    CASE value.kind = "none" -> FALSE
      [] value.kind = "num" -> value.num # 0
      [] OTHER -> value.chars # <<>>

is_numeric(value) ==
    IF isna(value) THEN FALSE
    ELSE IF value.kind = "num" THEN TRUE
    ELSE FloatParses(value.chars)

normalize_text(text) ==
    IF isna(text) THEN <<>>
    ELSE Lower(SubWhitespace(Strip(Str(text))))

(***************************************************************************)
(* calculate_similarity                                                    *)
(***************************************************************************)
Zero == <<0, 1>>                     \* 0.0
One  == <<1, 1>>                     \* 1.0
FloatEq(a, b) == a[1] * b[2] = b[1] * a[2]
FloatGe(a, b) == a[1] * b[2] >= b[1] * a[2]
FloatGt(a, b) == a[1] * b[2] > b[1] * a[2]

\* a slip: the word lists are counted instead of the word sets
calculate_similarity_lists(t1, t2) ==
    IF t1 = <<>> \/ t2 = <<>> THEN Zero
    ELSE LET words1 == Split(t1)
             words2 == Split(t2)
             common == {i \in 1..Len(words1) : words1[i] \in Range(words2)}
         IN  IF words1 = <<>> /\ words2 = <<>> THEN One
             ELSE IF words1 = <<>> \/ words2 = <<>> THEN Zero
             ELSE <<Cardinality(common),
                    Len(words1) + Len(words2) - Cardinality(common)>>

calculate_similarity(t1, t2) ==
    IF t1 = <<>> \/ t2 = <<>> THEN Zero
    ELSE LET words1 == Range(Split(t1))
             words2 == Range(Split(t2))
         IN  IF words1 = {} /\ words2 = {} THEN One
             ELSE IF words1 = {} \/ words2 = {} THEN Zero
             ELSE <<Cardinality(words1 \cap words2),
                    Cardinality(words1 \cup words2)>>

(***************************************************************************)
(* compare_cells and get_cell_color                                        *)
(***************************************************************************)
Arrow == <<"<", "-", "-", ">">>                    \* "<-->"
ArrowSep == <<" ">> \o Arrow \o <<" ">>            \* " <--> "
HighDifference == 100

\* -value1: defined for a number, TypeError for a str
Negate(value) ==
    IF value.kind = "num" THEN PyInt(-value.num) ELSE Raised("TypeError")

\* a slip: a value facing an absent A value is always stringified
compare_cells_stringify(v1, v2) ==
    IF isna(v1) /\ isna(v2) THEN PyInt(0)
    ELSE IF isna(v1) THEN PyStr(Str(v2))
    ELSE IF isna(v2)
         THEN (IF is_numeric(v1) THEN Negate(v1) ELSE PyStr(Str(v1) \o ArrowSep))
    ELSE IF is_numeric(v1) /\ is_numeric(v2) THEN PyInt(Float(v2) - Float(v1))
    ELSE LET str1 == Str(v1)
             str2 == Str(v2)
         IN  IF str1 = str2 THEN PyStr(str1)
             ELSE PyStr(str1 \o ArrowSep \o str2)

compare_cells(v1, v2) ==
    IF isna(v1) /\ isna(v2) THEN PyInt(0)
    ELSE IF isna(v1) THEN (IF is_numeric(v2) THEN v2 ELSE PyStr(Str(v2)))
    ELSE IF isna(v2)
         THEN (IF is_numeric(v1) THEN Negate(v1) ELSE PyStr(Str(v1) \o ArrowSep))
    ELSE IF is_numeric(v1) /\ is_numeric(v2) THEN PyInt(Float(v2) - Float(v1))
    ELSE LET str1 == Str(v1)
             str2 == Str(v2)
         IN  IF str1 = str2 THEN PyStr(str1)
             ELSE PyStr(str1 \o ArrowSep \o str2)

LightGreen  == "90EE90"
LightRed    == "FFB6C1"
LightOrange == "FFE4B5"
NoFill      == "None"

\* a slip: the threshold itself already counts as a high difference
get_cell_color_ge(difference_value) ==
    IF isna(difference_value) THEN NoFill
    ELSE IF difference_value.kind = "num"
         THEN (IF difference_value.num = 0 THEN LightGreen
               ELSE IF Abs(difference_value.num) >= HighDifference THEN LightRed
               ELSE LightOrange)
    ELSE IF difference_value.kind = "str" /\ Contains(difference_value.chars, Arrow)
         THEN LightRed
    ELSE NoFill

get_cell_color(difference_value) ==
    IF isna(difference_value) THEN NoFill
    ELSE IF difference_value.kind = "num"
         THEN (IF difference_value.num = 0 THEN LightGreen
               ELSE IF Abs(difference_value.num) > HighDifference THEN LightRed
               ELSE LightOrange)
    ELSE IF difference_value.kind = "str" /\ Contains(difference_value.chars, Arrow)
         THEN LightRed
    ELSE NoFill

(***************************************************************************)
(* Worksheets                                                              *)
(***************************************************************************)
\* an openpyxl worksheet: its used dimensions and its cell values
Worksheet(nrows, ncols, cells) ==
    [max_row |-> nrows, max_column |-> ncols, cells |-> cells]

\* ws.cell(row=r, column=c).value: a cell outside the stored ones is empty
CellValue(ws, r, c) ==
    IF <<r, c>> \in DOMAIN ws.cells THEN ws.cells[<<r, c>>] ELSE None

Min(S) == CHOOSE x \in S : \A y \in S : x <= y

\* the keys of a dict filled in ascending order, in iteration order
RECURSIVE Ascending(_)
Ascending(S) ==
    IF S = {} THEN <<>> ELSE <<Min(S)>> \o Ascending(S \ {Min(S)})

\* d[k] = v
DictSet(d, k, v) == [x \in DOMAIN d \cup {k} |-> IF x = k THEN v ELSE d[x]]
EmptyDict == [x \in {} |-> 0]

MinSimilarity == <<4, 5>>            \* min_similarity = 0.8

(***************************************************************************)
(* find_matching_rows                                                      *)
(***************************************************************************)
\* lines 50-60: the rows whose key cell is truthy and not blank
CollectRows(ws, keycol) ==
    LET rows == { row \in 1..ws.max_row :
                    LET cell_value == CellValue(ws, row, keycol)
                    IN  Truthy(cell_value) /\ Strip(Str(cell_value)) # <<>> }
    IN  [row \in rows |-> normalize_text(CellValue(ws, row, keycol))]

\* a slip: the used rows of ws2 are not skipped
RECURSIVE ExactRowScanReuse(_, _, _, _)
ExactRowScanReuse(rows2, t1, w2rows, used) ==
    IF rows2 = <<>> THEN 0
    ELSE IF t1 = w2rows[Head(rows2)] THEN Head(rows2)
    ELSE ExactRowScanReuse(Tail(rows2), t1, w2rows, used)

\* a slip: the break leaves the inner loop after the first row of ws2
ExactRowScanFirstOnly(rows2, t1, w2rows, used) ==
    IF rows2 = <<>> THEN 0
    ELSE IF Head(rows2) \notin used /\ t1 = w2rows[Head(rows2)] THEN Head(rows2)
    ELSE 0

\* a slip: the inner loop has no break, so the last row of ws2 that is not
\* used and has the same text wins
RECURSIVE ExactRowScanLast(_, _, _, _)
ExactRowScanLast(rows2, t1, w2rows, used) ==
    IF rows2 = <<>> THEN 0
    ELSE LET later == ExactRowScanLast(Tail(rows2), t1, w2rows, used)
         IN  IF later # 0 THEN later
             ELSE IF Head(rows2) \notin used /\ t1 = w2rows[Head(rows2)]
                  THEN Head(rows2)
             ELSE 0

\* lines 67-72: the first row of ws2, in iteration order, that is not used
\* and has the same text (0: the inner loop ends without a break)
RECURSIVE ExactRowScan(_, _, _, _)
ExactRowScan(rows2, t1, w2rows, used) ==
    IF rows2 = <<>> THEN 0
    ELSE IF Head(rows2) \notin used /\ t1 = w2rows[Head(rows2)] THEN Head(rows2)
    ELSE ExactRowScan(Tail(rows2), t1, w2rows, used)

\* lines 66-72: one iteration of the first pass, for row r1 of ws1
ExactRowStep(st, r1, w1rows, w2rows) ==
    LET row2 == ExactRowScan(Ascending(DOMAIN w2rows), w1rows[r1], w2rows, st.used)
    IN  IF row2 # 0
        THEN [matches |-> DictSet(st.matches, r1, row2),
              used |-> st.used \cup {row2}, how |-> "exact"]
        ELSE [st EXCEPT !.how = "none"]

\* a slip: the first row of ws2 that reaches the threshold is taken
RECURSIVE FuzzyRowScanFirstFit(_, _, _, _, _)
FuzzyRowScanFirstFit(rows2, t1, w2rows, used, best) ==
    IF rows2 = <<>> THEN best
    ELSE IF Head(rows2) \in used
         THEN FuzzyRowScanFirstFit(Tail(rows2), t1, w2rows, used, best)
    ELSE LET sim == calculate_similarity(t1, w2rows[Head(rows2)])
         IN  IF FloatGe(sim, MinSimilarity)
             THEN <<Head(rows2), sim>>
             ELSE FuzzyRowScanFirstFit(Tail(rows2), t1, w2rows, used, best)

\* a slip: >= for >, so that the last of several equally similar rows wins
RECURSIVE FuzzyRowScanLastTie(_, _, _, _, _)
FuzzyRowScanLastTie(rows2, t1, w2rows, used, best) ==
    IF rows2 = <<>> THEN best
    ELSE IF Head(rows2) \in used
         THEN FuzzyRowScanLastTie(Tail(rows2), t1, w2rows, used, best)
    ELSE LET sim == calculate_similarity(t1, w2rows[Head(rows2)])
         IN  IF FloatGe(sim, best[2]) /\ FloatGe(sim, MinSimilarity)
             THEN FuzzyRowScanLastTie(Tail(rows2), t1, w2rows, used,
                                      <<Head(rows2), sim>>)
             ELSE FuzzyRowScanLastTie(Tail(rows2), t1, w2rows, used, best)

\* lines 82-90: the inner loop of the second pass; best is
\* <<best_match, best_similarity>>, best_match = 0 standing for None
RECURSIVE FuzzyRowScan(_, _, _, _, _)
FuzzyRowScan(rows2, t1, w2rows, used, best) ==
    IF rows2 = <<>> THEN best
    ELSE IF Head(rows2) \in used
         THEN FuzzyRowScan(Tail(rows2), t1, w2rows, used, best)
    ELSE LET sim == calculate_similarity(t1, w2rows[Head(rows2)])
         IN  IF FloatGt(sim, best[2]) /\ FloatGe(sim, MinSimilarity)
             THEN FuzzyRowScan(Tail(rows2), t1, w2rows, used, <<Head(rows2), sim>>)
             ELSE FuzzyRowScan(Tail(rows2), t1, w2rows, used, best)

\* lines 75-98: one iteration of the second pass, for row r1 of ws1
FuzzyRowStep(st, r1, w1rows, w2rows) ==
    IF r1 \in DOMAIN st.matches THEN [st EXCEPT !.how = "none"]
    ELSE LET best == FuzzyRowScan(Ascending(DOMAIN w2rows), w1rows[r1], w2rows,
                                  st.used, <<0, Zero>>)
         IN  IF best[1] # 0
             THEN [matches |-> DictSet(st.matches, r1, best[1]),
                   used |-> st.used \cup {best[1]}, how |-> "fuzzy"]
             ELSE [st EXCEPT !.how = "none"]

RECURSIVE ExactRowPass(_, _, _, _)
ExactRowPass(rows1, st, w1rows, w2rows) ==
    IF rows1 = <<>> THEN st
    ELSE ExactRowPass(Tail(rows1), ExactRowStep(st, Head(rows1), w1rows, w2rows),
                      w1rows, w2rows)

RECURSIVE FuzzyRowPass(_, _, _, _)
FuzzyRowPass(rows1, st, w1rows, w2rows) ==
    IF rows1 = <<>> THEN st
    ELSE FuzzyRowPass(Tail(rows1), FuzzyRowStep(st, Head(rows1), w1rows, w2rows),
                      w1rows, w2rows)

NoMatches == [matches |-> EmptyDict, used |-> {}, how |-> "none"]

\* the whole call
find_matching_rows(w1, w2, keycol) ==
    LET w1rows == CollectRows(w1, keycol)
        w2rows == CollectRows(w2, keycol)
        rows1 == Ascending(DOMAIN w1rows)
        exact == ExactRowPass(rows1, NoMatches, w1rows, w2rows)
    IN  FuzzyRowPass(rows1, exact, w1rows, w2rows).matches

(***************************************************************************)
(* find_matching_columns                                                   *)
(***************************************************************************)
\* lines 126-136: the columns whose key cell is truthy and not blank
CollectCols(ws, keyrow) ==
    LET cols == { col \in 1..ws.max_column :
                    LET cell_value == CellValue(ws, keyrow, col)
                    IN  Truthy(cell_value) /\ Strip(Str(cell_value)) # <<>> }
    IN  [col \in cols |-> normalize_text(CellValue(ws, keyrow, col))]

\* lines 143-148
RECURSIVE ExactColScan(_, _, _, _)
ExactColScan(cols2, t1, w2cols, used) ==
    IF cols2 = <<>> THEN 0
    ELSE IF Head(cols2) \notin used /\ t1 = w2cols[Head(cols2)] THEN Head(cols2)
    ELSE ExactColScan(Tail(cols2), t1, w2cols, used)

\* lines 142-148: one iteration of the first pass, for column c1 of ws1
ExactColStep(st, c1, w1cols, w2cols) ==
    LET col2 == ExactColScan(Ascending(DOMAIN w2cols), w1cols[c1], w2cols, st.used)
    IN  IF col2 # 0
        THEN [matches |-> DictSet(st.matches, c1, col2),
              used |-> st.used \cup {col2}, how |-> "exact"]
        ELSE [st EXCEPT !.how = "none"]

\* lines 158-166
RECURSIVE FuzzyColScan(_, _, _, _, _)
FuzzyColScan(cols2, t1, w2cols, used, best) ==
    IF cols2 = <<>> THEN best
    ELSE IF Head(cols2) \in used
         THEN FuzzyColScan(Tail(cols2), t1, w2cols, used, best)
    ELSE LET sim == calculate_similarity(t1, w2cols[Head(cols2)])
         IN  IF FloatGt(sim, best[2]) /\ FloatGe(sim, MinSimilarity)
             THEN FuzzyColScan(Tail(cols2), t1, w2cols, used, <<Head(cols2), sim>>)
             ELSE FuzzyColScan(Tail(cols2), t1, w2cols, used, best)

\* lines 151-174: one iteration of the second pass, for column c1 of ws1
FuzzyColStep(st, c1, w1cols, w2cols) ==
    IF c1 \in DOMAIN st.matches THEN [st EXCEPT !.how = "none"]
    ELSE LET best == FuzzyColScan(Ascending(DOMAIN w2cols), w1cols[c1], w2cols,
                                  st.used, <<0, Zero>>)
         IN  IF best[1] # 0
             THEN [matches |-> DictSet(st.matches, c1, best[1]),
                   used |-> st.used \cup {best[1]}, how |-> "fuzzy"]
             ELSE [st EXCEPT !.how = "none"]

RECURSIVE ExactColPass(_, _, _, _)
ExactColPass(cols1, st, w1cols, w2cols) ==
    IF cols1 = <<>> THEN st
    ELSE ExactColPass(Tail(cols1), ExactColStep(st, Head(cols1), w1cols, w2cols),
                      w1cols, w2cols)

RECURSIVE FuzzyColPass(_, _, _, _)
FuzzyColPass(cols1, st, w1cols, w2cols) ==
    IF cols1 = <<>> THEN st
    ELSE FuzzyColPass(Tail(cols1), FuzzyColStep(st, Head(cols1), w1cols, w2cols),
                      w1cols, w2cols)

\* the whole call
find_matching_columns(w1, w2, keyrow) ==
    LET w1cols == CollectCols(w1, keyrow)
        w2cols == CollectCols(w2, keyrow)
        cols1 == Ascending(DOMAIN w1cols)
        exact == ExactColPass(cols1, NoMatches, w1cols, w2cols)
    IN  FuzzyColPass(cols1, exact, w1cols, w2cols).matches

(***************************************************************************)
(* detect_key_row_column                                                   *)
(***************************************************************************)
\* lines 276, 286: a cell that counts as text
IsTextCell(ws, r, c) ==
    Truthy(CellValue(ws, r, c)) /\ ~is_numeric(CellValue(ws, r, c))

\* lines 271-278 and 281-288
RowTextCount(ws, r) == Cardinality({c \in 1..ws.max_column : IsTextCell(ws, r, c)})
ColTextCount(ws, c) == Cardinality({r \in 1..ws.max_row : IsTextCell(ws, r, c)})

\* max(items, key=...)[0] over a dict filled in ascending order: the first
\* key, in iteration order, whose count no other key exceeds
\* a slip: >= for >, so that the last key with the largest count wins
RECURSIVE FirstMaxLast(_, _, _)
FirstMaxLast(ks, counts, best) ==
    IF ks = <<>> THEN best
    ELSE IF counts[Head(ks)] >= counts[best]
         THEN FirstMaxLast(Tail(ks), counts, Head(ks))
    ELSE FirstMaxLast(Tail(ks), counts, best)

RECURSIVE FirstMax(_, _, _)
FirstMax(ks, counts, best) ==
    IF ks = <<>> THEN best
    ELSE IF counts[Head(ks)] > counts[best]
         THEN FirstMax(Tail(ks), counts, Head(ks))
    ELSE FirstMax(Tail(ks), counts, best)

detect_key_row_column(ws) ==
    LET row_text_counts == [r \in 1..ws.max_row |-> RowTextCount(ws, r)]
        col_text_counts == [c \in 1..ws.max_column |-> ColTextCount(ws, c)]
    IN  <<FirstMax(Ascending(1..ws.max_row), row_text_counts, 1),
          FirstMax(Ascending(1..ws.max_column), col_text_counts, 1)>>

(***************************************************************************)
(* excel_diff                                                              *)
(***************************************************************************)
\* a loaded workbook: wb.sheetnames and wb[name]
Workbook(names, sheets) == [sheetnames |-> names, sheets |-> sheets]

\* lines 327-347: <<actual_key_row, actual_key_column>>
ResolveKeys(w1, w2, keyrow, keycol) ==
    IF keyrow = 0 \/ keycol = 0
    THEN LET first_sheet_name == w1.sheetnames[1]
         IN  IF first_sheet_name \in Range(w2.sheetnames)
             THEN LET detected == detect_key_row_column(w1.sheets[first_sheet_name])
                  IN  <<IF keyrow = 0 THEN detected[1] ELSE keyrow,
                        IF keycol = 0 THEN detected[2] ELSE keycol>>
             ELSE <<IF keyrow = 0 THEN 1 ELSE keyrow,
                    IF keycol = 0 THEN 1 ELSE keycol>>
    ELSE <<keyrow, keycol>>

\* a cell of the output sheet: what was written and how it is filled
OutCell(v, fill) == [value |-> v, fill |-> fill]
\* a str constant of the code, kept in one piece
Label(text) == PyStr(<<text>>)
\* the place of key k among the keys of a dict, in sorted(d.items()) order
Position(d, k) == Cardinality({x \in DOMAIN d : x <= k})

\* lines 382-428: the header, the two mapping tables and the separator
MappingTables(w1, rm, cm, akeyrow, akeycol) ==
    LET R == Cardinality(DOMAIN rm)
        C == Cardinality(DOMAIN cm)
        header_row == 1
        col_mapping_start == (2 + R) + 2
        separator_row == (col_mapping_start + 1 + C) + 1
        RowHeader == [p \in {header_row} \X (1..4) |->
            OutCell(Label(<<"Row Mapping (File1 -> File2)", "File1 Row",
                            "File2 Row", "Key Value">>[p[2]]), NoFill)]
        ColHeader == [p \in {col_mapping_start} \X (1..4) |->
            OutCell(Label(<<"Column Mapping (File1 -> File2)", "File1 Col",
                            "File2 Col", "Header Value">>[p[2]]), NoFill)]
        RowEntry(r1) == <<PyInt(r1), PyInt(rm[r1]), CellValue(w1, r1, akeycol)>>
        ColEntry(c1) == <<PyInt(c1), PyInt(cm[c1]), CellValue(w1, akeyrow, c1)>>
        RowEntries == [p \in (2..(1 + R)) \X (2..4) |->
            LET r1 == CHOOSE k \in DOMAIN rm : Position(rm, k) = p[1] - 1
            IN  OutCell(RowEntry(r1)[p[2] - 1], NoFill)]
        ColEntries ==
            [p \in ((col_mapping_start + 1)..(col_mapping_start + C)) \X (2..4) |->
            LET c1 == CHOOSE k \in DOMAIN cm :
                          Position(cm, k) = p[1] - col_mapping_start
            IN  OutCell(ColEntry(c1)[p[2] - 1], NoFill)]
        Separator == [p \in {<<separator_row, 1>>} |->
            OutCell(Label("=================================================="),
                    NoFill)]
    IN  RowHeader @@ RowEntries @@ ColHeader @@ ColEntries @@ Separator

\* a slip: the body starts on the line after the separator
DataStartRowNoGap(rm, cm) ==
    ((((2 + Cardinality(DOMAIN rm)) + 2) + 1 + Cardinality(DOMAIN cm)) + 1) + 1

\* line 431
DataStartRow(rm, cm) ==
    ((((2 + Cardinality(DOMAIN rm)) + 2) + 1 + Cardinality(DOMAIN cm)) + 1) + 2

\* a slip: the cell of ws2 is taken from the row of ws1
BodyCellsSameRow(w1, w2, r1, r2, c1, c2) ==
    <<CellValue(w1, r1, c1), CellValue(w2, r1, c2)>>

\* lines 438-439: the two cells of one body position
BodyCells(w1, w2, r1, r2, c1, c2) ==
    <<CellValue(w1, r1, c1), CellValue(w2, r2, c2)>>

(***************************************************************************)
(* Inputs                                                                  *)
(***************************************************************************)
\* key texts as they stand in a sheet: words, padding, runs of blanks, capitals
KeyTexts ==
    { <<"a">>, <<"A">>, <<"b">>, <<" ">>,
      <<"a", " ", "b">>, <<"b", " ", "a">>, <<" ", "A", " ", "\t", "b", " ">>,
      <<"a", " ", "b", " ", "a">>, <<"a", " ", "a">>,
      <<"a", " ", "b", " ", "c", " ", "d">>,
      <<"a", " ", "b", " ", "c", " ", "d", " ", "e">>,
      <<"e", " ", "d", " ", "c", " ", "b", " ", "a">> }
MaxKeyNumber == 2
RawKeys == {None} \cup {PyStr(s) : s \in KeyTexts \cup {<<>>}}
               \cup {PyInt(n) : n \in 0..MaxKeyNumber}

\* cell contents: numbers on both sides of the colour thresholds, digit
\* strings, plain text and text that itself holds "<-->"
MaxNumber == 102
CellNumbers == 0..MaxNumber
CellTexts ==
    { <<"a">>, <<"b">>, <<"a", " ", "b">>,
      <<"a", "<", "-", "-", ">", "b">>, <<"<", "-", "-", ">">>,
      <<"a", "<", "-", ">">>,
      <<"0">>, <<"3">>, <<"7">>, <<"1", "5", "0">>, <<" ", "7">>, <<"-", "3">> }
CellValues == {None} \cup {PyInt(n) : n \in CellNumbers}
                  \cup {PyStr(s) : s \in CellTexts}

\* key cells of the sheets that are aligned.  In ws1: an empty cell, the
\* number 0, "a b c d" written with capitals and runs of blanks, "a b c d e"
\* and "a b c d f".  In ws2: the number 0, "a b c d", "e d c b a" and
\* "b c d e".  Between the word sets of two different keys
\* the similarity is 1 (same words, other order), 4/5 (the threshold), 4/6,
\* 3/5 or 3/6.
AlignKeys1 ==
    { None, PyInt(0),
      PyStr(<<"A", " ", " ", "b", "\t", "c", " ", "d", " ">>),
      PyStr(<<"a", " ", "b", " ", "c", " ", "d", " ", "e">>),
      PyStr(<<"a", " ", "b", " ", "c", " ", "d", " ", "f">>) }
AlignKeys2 ==
    { PyInt(0),
      PyStr(<<"a", " ", "b", " ", "c", " ", "d">>),
      PyStr(<<"e", " ", "d", " ", "c", " ", "b", " ", "a">>),
      PyStr(<<"b", " ", "c", " ", "d", " ", "e">>) }
MaxKeys == 2
\* the key column, or key row, of the sheets that are aligned
KeyIndexes == {1, 2}
\* what the cells outside the key column, or key row, hold
Decoy == PyStr(<<"a", " ", "b", " ", "c", " ", "d">>)

\* the sheets excel_diff is run on: a corner cell, row keys below it, column
\* keys to its right, and data cells that tell their row and column
K1 == PyStr(<<"a", " ", "b", " ", "c", " ", "d">>)
K2 == PyStr(<<"a", " ", "b", " ", "c", " ", "d", " ", "e">>)
K3 == PyStr(<<"b">>)
DiffCornerKeys == {PyStr(<<" ", " ">>), K1}
DiffRowKeys == {None, K1, K2}
DiffHeaderKeys == {K1, K3}
MaxRow == 2
MaxCol == 2
\* "numbers": ints in both sheets; "digits": digit strings in A, blanks in B
DataVariants == {"numbers", "digits"}

DataCell(side, variant, r, c) ==
    IF variant = "numbers"
    THEN PyInt(10 * r + c + (IF side = 2 THEN 5 ELSE 0))
    ELSE IF side = 1 THEN PyStr(IntStr(10 * r + c)) ELSE None

KeyedSheet(side, corner, rowkeys, hdrkeys, variant) ==
    Worksheet(MaxRow, MaxCol,
        [p \in (1..MaxRow) \X (1..MaxCol) |->
            IF p = <<1, 1>> THEN corner
            ELSE IF p[2] = 1 THEN rowkeys[p[1] - 1]
            ELSE IF p[1] = 1 THEN hdrkeys[p[2] - 1]
            ELSE DataCell(side, variant, p[1], p[2])])

\* the workbooks of test_excel_diff.py (the decimals 10.1, 20.2, 25.2, 30.3 of
\* column C written as the ints 10, 20, 25, 30)
Apple  == PyStr(<<"a", "p", "p", "l", "e">>)
Banana == PyStr(<<"b", "a", "n", "a", "n", "a">>)
Cherry == PyStr(<<"c", "h", "e", "r", "r", "y">>)
Orange == PyStr(<<"o", "r", "a", "n", "g", "e">>)
SheetOfRows(rows) ==
    Worksheet(Len(rows), Len(rows[1]),
        [p \in (1..Len(rows)) \X (1..Len(rows[1])) |-> rows[p[1]][p[2]]])
TestHeader == <<PyStr(<<"A">>), PyStr(<<"B">>), PyStr(<<"C">>)>>
TestSheet1 ==
    SheetOfRows(<< TestHeader,
                   <<PyInt(1), Apple, PyInt(10)>>,
                   <<PyInt(2), Banana, PyInt(20)>>,
                   <<PyInt(3), Cherry, PyInt(30)>> >>)
TestSheet2 ==
    SheetOfRows(<< TestHeader,
                   <<PyInt(1), Apple, PyInt(10)>>,
                   <<PyInt(5), Orange, PyInt(25)>>,
                   <<PyInt(3), Cherry, PyInt(30)>> >>)
ExtraSheet == SheetOfRows(<< <<K3>> >>)
\* two sheets of one name whose only keys, "a b c d" and "b", share 1 word of
\* 4: no row matches
NoRowsSheet(side) == SheetOfRows(<< <<IF side = 1 THEN K1 ELSE K3>> >>)
\* two sheets of one name whose row keys are the same and whose only column
\* keys share 1 word of 4: a row matches, no column does
NoColsSheet(side) ==
    SheetOfRows(<< <<None, IF side = 1 THEN K1 ELSE K3>>,
                   <<K1, PyInt(side)>> >>)
SheetNames1 ==
    { <<"Sheet1">>, <<"Extra", "Sheet1">>, <<"Sheet1", "Extra">>, <<"Extra">>,
      <<"NoRows", "Sheet1">>, <<"NoCols", "Extra", "Sheet1">>, <<"NoRows">> }
SheetNames2 ==
    { <<"Sheet1">>, <<"Sheet1", "Extra">>, <<"Sheet1", "NoRows", "NoCols">>,
      <<"NoRows">> }
TestBook(side, names) ==
    Workbook(names,
        [n \in Range(names) |->
            IF n = "Sheet1" THEN (IF side = 1 THEN TestSheet1 ELSE TestSheet2)
            ELSE IF n = "NoRows" THEN NoRowsSheet(side)
            ELSE IF n = "NoCols" THEN NoColsSheet(side)
            ELSE ExtraSheet])

\* the cells of the grids handed to detect_key_row_column: an empty cell, a
\* number, a text and a digit string
DetectCells == {None, PyInt(5), PyStr(<<"a">>), PyStr(<<"7">>)}
DetectGrids ==
    { Worksheet(MaxRow, MaxCol, cells) :
        cells \in [(1..MaxRow) \X (1..MaxCol) -> DetectCells] }

(***************************************************************************)
(* What the variables of an operation hold while it is not the one running *)
(***************************************************************************)
IdleSim ==
    /\ raw1 = None /\ raw2 = None /\ text1 = <<>> /\ text2 = <<>>
    /\ similarity = Unset
IdleCells ==
    /\ value1 = None /\ value2 = None /\ result = Unset /\ color_fill = Unset
EmptySheet == Worksheet(1, 1, [p \in {} |-> None])
IdleSheets ==
    /\ ws1 = EmptySheet /\ ws2 = EmptySheet /\ key_column = 1 /\ key_row = 1
IdleAlign ==
    /\ ws1_rows = EmptyDict /\ ws2_rows = EmptyDict
    /\ ws1_cols = EmptyDict /\ ws2_cols = EmptyDict
    /\ matches = EmptyDict /\ used_ws2_rows = {} /\ used_ws2_cols = {}
    /\ row1 = 0 /\ col1 = 0 /\ last_match = "none"

NoWorkbook == Workbook(<<>>, [n \in {} |-> EmptySheet])
IdleOutput ==
    /\ actual_key_row = 1 /\ actual_key_column = 1 /\ sheet_index = 0
    /\ row_matches = EmptyDict /\ column_matches = EmptyDict
    /\ wb_output = <<>> /\ data_start_row = 0 /\ output_row = 0 /\ output_col = 0
    /\ stdout = <<>> /\ saved = FALSE
IdleDiff == wb1 = NoWorkbook /\ wb2 = NoWorkbook /\ IdleOutput
IdleDetect == best_row = 0 /\ best_col = 0
\* the streams a process starts with, and the gui before anything is clicked
TerminalStream == "__stdout__"
ErrorStream == "__stderr__"
IdleGui ==
    /\ sys_stdout = TerminalStream /\ sys_stderr = ErrorStream
    /\ old_stdout = TerminalStream /\ old_stderr = ErrorStream
    /\ run_button = "normal" /\ status_var = "Ready" /\ messagebox = "none"
    /\ console_text = <<>> /\ terminal = <<>>
    /\ thread_pc = "not started" /\ thread_line = 0 /\ progress = 0
    /\ after_queue = <<>> /\ runs = 0

(***************************************************************************)
(* SpecSim: normalize two raw keys, then score them                        *)
(***************************************************************************)
InitSim ==
    /\ pc = "normalize"
    /\ raw1 \in RawKeys /\ raw2 \in RawKeys
    /\ text1 = <<>> /\ text2 = <<>> /\ similarity = Unset
    /\ IdleCells /\ IdleSheets /\ IdleAlign /\ IdleDiff /\ IdleDetect /\ IdleGui

Normalize ==
    /\ pc = "normalize"
    /\ text1' = normalize_text(raw1)
    /\ text2' = normalize_text(raw2)
    /\ pc' = "similarity"
    /\ UNCHANGED <<guiVars, detectVars, raw1, raw2, similarity, cellVars, sheetVars, alignVars, diffVars>>

Similarity ==
    /\ pc = "similarity"
    /\ similarity' = calculate_similarity(text1, text2)
    /\ pc' = "scored"
    /\ UNCHANGED <<guiVars, detectVars, raw1, raw2, text1, text2, cellVars, sheetVars, alignVars, diffVars>>

NextSim == Normalize \/ Similarity
SpecSim == InitSim /\ [][NextSim]_vars

(***************************************************************************)
(* SpecCells: classify one pair of cell values, then colour the result     *)
(***************************************************************************)
InitCells ==
    /\ pc = "compare"
    /\ value1 \in CellValues /\ value2 \in CellValues
    /\ result = Unset /\ color_fill = Unset
    /\ IdleSim /\ IdleSheets /\ IdleAlign /\ IdleDiff /\ IdleDetect /\ IdleGui

CompareCells ==
    /\ pc = "compare"
    /\ result' = compare_cells(value1, value2)
    /\ pc' = IF result'.kind = "raise" THEN "raised" ELSE "color"
    /\ UNCHANGED <<guiVars, detectVars, value1, value2, color_fill, simVars, sheetVars, alignVars, diffVars>>

GetCellColor ==
    /\ pc = "color"
    /\ color_fill' = get_cell_color(result)
    /\ pc' = "classified"
    /\ UNCHANGED <<guiVars, detectVars, value1, value2, result, simVars, sheetVars, alignVars, diffVars>>

NextCells == CompareCells \/ GetCellColor
SpecCells == InitCells /\ [][NextCells]_vars

(***************************************************************************)
(* SpecAlign: one call of find_matching_rows or of find_matching_columns,  *)
(* one outer-loop iteration per step                                       *)
(***************************************************************************)
\* the keys of d that the loop has not reached yet
Pending(d, last) == {k \in DOMAIN d : k > last}

\* a sheet that is one column of keys, and one that is one row of keys
KeyColumnSheet(keys, k) ==
    Worksheet(Len(keys), 2,
        [p \in (1..Len(keys)) \X (1..2) |->
            IF p[2] = k THEN keys[p[1]] ELSE Decoy])
KeyRowSheet(keys, k) ==
    Worksheet(2, Len(keys),
        [p \in (1..2) \X (1..Len(keys)) |->
            IF p[1] = k THEN keys[p[2]] ELSE Decoy])

KeyLists(pool) == UNION {[1..n -> pool] : n \in 1..MaxKeys}

InitAlign ==
    /\ \E keys1 \in KeyLists(AlignKeys1), keys2 \in KeyLists(AlignKeys2),
          k \in KeyIndexes :
          \/ /\ pc = "rows_collect"
             /\ ws1 = KeyColumnSheet(keys1, k) /\ ws2 = KeyColumnSheet(keys2, k)
             /\ key_column = k /\ key_row = 1
          \/ /\ pc = "cols_collect"
             /\ ws1 = KeyRowSheet(keys1, k) /\ ws2 = KeyRowSheet(keys2, k)
             /\ key_column = 1 /\ key_row = k
    /\ IdleSim /\ IdleCells /\ IdleAlign /\ IdleDiff /\ IdleDetect /\ IdleGui

\* lines 43-63
RowsCollect ==
    /\ pc = "rows_collect"
    /\ ws1_rows' = CollectRows(ws1, key_column)
    /\ ws2_rows' = CollectRows(ws2, key_column)
    /\ matches' = EmptyDict /\ used_ws2_rows' = {}
    /\ row1' = 0 /\ last_match' = "none"
    /\ pc' = IF DOMAIN ws1_rows' = {} THEN "rows_done" ELSE "rows_exact"
    /\ UNCHANGED <<guiVars, detectVars, ws1_cols, ws2_cols, used_ws2_cols, col1,
                   simVars, cellVars, sheetVars, diffVars>>

\* lines 66-72, one row of ws1
RowsExact ==
    /\ pc = "rows_exact"
    /\ LET r == Min(Pending(ws1_rows, row1))
           st == ExactRowStep([matches |-> matches, used |-> used_ws2_rows,
                               how |-> "none"], r, ws1_rows, ws2_rows)
           last == Pending(ws1_rows, r) = {}
       IN  /\ matches' = st.matches
           /\ used_ws2_rows' = st.used
           /\ last_match' = st.how
           /\ row1' = IF last THEN 0 ELSE r
           /\ pc' = IF last THEN "rows_fuzzy" ELSE "rows_exact"
    /\ UNCHANGED <<guiVars, detectVars, ws1_rows, ws2_rows, ws1_cols, ws2_cols, used_ws2_cols, col1,
                   simVars, cellVars, sheetVars, diffVars>>

\* lines 75-98, one row of ws1
RowsFuzzy ==
    /\ pc = "rows_fuzzy"
    /\ LET r == Min(Pending(ws1_rows, row1))
           st == FuzzyRowStep([matches |-> matches, used |-> used_ws2_rows,
                               how |-> "none"], r, ws1_rows, ws2_rows)
           last == Pending(ws1_rows, r) = {}
       IN  /\ matches' = st.matches
           /\ used_ws2_rows' = st.used
           /\ last_match' = st.how
           /\ row1' = IF last THEN 0 ELSE r
           /\ pc' = IF last THEN "rows_done" ELSE "rows_fuzzy"
    /\ UNCHANGED <<guiVars, detectVars, ws1_rows, ws2_rows, ws1_cols, ws2_cols, used_ws2_cols, col1,
                   simVars, cellVars, sheetVars, diffVars>>

\* lines 119-139
ColsCollect ==
    /\ pc = "cols_collect"
    /\ ws1_cols' = CollectCols(ws1, key_row)
    /\ ws2_cols' = CollectCols(ws2, key_row)
    /\ matches' = EmptyDict /\ used_ws2_cols' = {}
    /\ col1' = 0 /\ last_match' = "none"
    /\ pc' = IF DOMAIN ws1_cols' = {} THEN "cols_done" ELSE "cols_exact"
    /\ UNCHANGED <<guiVars, detectVars, ws1_rows, ws2_rows, used_ws2_rows, row1,
                   simVars, cellVars, sheetVars, diffVars>>

\* lines 142-148, one column of ws1
ColsExact ==
    /\ pc = "cols_exact"
    /\ LET c == Min(Pending(ws1_cols, col1))
           st == ExactColStep([matches |-> matches, used |-> used_ws2_cols,
                               how |-> "none"], c, ws1_cols, ws2_cols)
           last == Pending(ws1_cols, c) = {}
       IN  /\ matches' = st.matches
           /\ used_ws2_cols' = st.used
           /\ last_match' = st.how
           /\ col1' = IF last THEN 0 ELSE c
           /\ pc' = IF last THEN "cols_fuzzy" ELSE "cols_exact"
    /\ UNCHANGED <<guiVars, detectVars, ws1_rows, ws2_rows, ws1_cols, ws2_cols, used_ws2_rows, row1,
                   simVars, cellVars, sheetVars, diffVars>>

\* lines 151-174, one column of ws1
ColsFuzzy ==
    /\ pc = "cols_fuzzy"
    /\ LET c == Min(Pending(ws1_cols, col1))
           st == FuzzyColStep([matches |-> matches, used |-> used_ws2_cols,
                               how |-> "none"], c, ws1_cols, ws2_cols)
           last == Pending(ws1_cols, c) = {}
       IN  /\ matches' = st.matches
           /\ used_ws2_cols' = st.used
           /\ last_match' = st.how
           /\ col1' = IF last THEN 0 ELSE c
           /\ pc' = IF last THEN "cols_done" ELSE "cols_fuzzy"
    /\ UNCHANGED <<guiVars, detectVars, ws1_rows, ws2_rows, ws1_cols, ws2_cols, used_ws2_rows, row1,
                   simVars, cellVars, sheetVars, diffVars>>

NextAlign ==
    \/ RowsCollect \/ RowsExact \/ RowsFuzzy
    \/ ColsCollect \/ ColsExact \/ ColsFuzzy
SpecAlign == InitAlign /\ [][NextAlign]_vars

(***************************************************************************)
(* SpecDetect: one call of detect_key_row_column                           *)
(***************************************************************************)
InitDetect ==
    /\ pc = "detect"
    /\ ws1 \in DetectGrids /\ ws2 = EmptySheet
    /\ key_column = 0 /\ key_row = 0
    /\ best_row = 0 /\ best_col = 0
    /\ IdleSim /\ IdleCells /\ IdleAlign /\ IdleDiff /\ IdleGui

\* lines 267-301
DetectKeyRowColumn ==
    /\ pc = "detect"
    /\ LET detected == detect_key_row_column(ws1)
       IN  best_row' = detected[1] /\ best_col' = detected[2]
    /\ pc' = "detected"
    /\ UNCHANGED <<guiVars, simVars, cellVars, sheetVars, alignVars, diffVars>>

NextDetect == DetectKeyRowColumn
SpecDetect == InitDetect /\ [][NextDetect]_vars

(***************************************************************************)
(* SpecDiff: one run of excel_diff, one step per call it makes             *)
(***************************************************************************)
InitDiff ==
    /\ pc = "load"
    /\ \/ /\ \E c1 \in DiffCornerKeys, c2 \in DiffCornerKeys,
               r1 \in [1..(MaxRow - 1) -> DiffRowKeys],
               r2 \in [1..(MaxRow - 1) -> DiffRowKeys],
               h1 \in [1..(MaxCol - 1) -> DiffHeaderKeys],
               h2 \in [1..(MaxCol - 1) -> DiffHeaderKeys],
               variant \in DataVariants :
                /\ wb1 = Workbook(<<"Sheet1">>,
                        [n \in {"Sheet1"} |-> KeyedSheet(1, c1, r1, h1, variant)])
                /\ wb2 = Workbook(<<"Sheet1">>,
                        [n \in {"Sheet1"} |-> KeyedSheet(2, c2, r2, h2, variant)])
          /\ key_column = 1 /\ key_row = 1
       \/ /\ \E names1 \in SheetNames1, names2 \in SheetNames2 :
                /\ wb1 = TestBook(1, names1)
                /\ wb2 = TestBook(2, names2)
          /\ key_column \in {0, 1} /\ key_row \in {0, 1}
    /\ ws1 = EmptySheet /\ ws2 = EmptySheet
    /\ IdleOutput /\ IdleSim /\ IdleCells /\ IdleAlign /\ IdleDetect /\ IdleGui

\* wb_output with the cells of its last sheet, ws_output, replaced
WithOutputCells(cells) ==
    [wb_output EXCEPT ![Len(wb_output)].cells = cells]
ws_output == wb_output[Len(wb_output)]

\* lines 321-353
LoadWorkbooks ==
    /\ pc = "load"
    /\ LET actual == ResolveKeys(wb1, wb2, key_row, key_column)
       IN  actual_key_row' = actual[1] /\ actual_key_column' = actual[2]
    /\ wb_output' = <<>>
    /\ sheet_index' = 0
    /\ pc' = "sheets"
    /\ UNCHANGED <<guiVars, detectVars, wb1, wb2, row_matches, column_matches, data_start_row,
                   output_row, output_col, stdout, saved,
                   simVars, cellVars, sheetVars, alignVars>>

\* lines 356-357: a name of wb1 that wb2 lacks
SkipSheet ==
    /\ pc = "sheets"
    /\ sheet_index < Len(wb1.sheetnames)
    /\ wb1.sheetnames[sheet_index + 1] \notin Range(wb2.sheetnames)
    /\ sheet_index' = sheet_index + 1
    /\ UNCHANGED <<guiVars, detectVars, pc, wb1, wb2, actual_key_row, actual_key_column, row_matches,
                   column_matches, wb_output, data_start_row, output_row,
                   output_col, stdout, saved,
                   simVars, cellVars, sheetVars, alignVars>>

\* lines 357-365
OpenSheet ==
    /\ pc = "sheets"
    /\ sheet_index < Len(wb1.sheetnames)
    /\ LET sheet_name == wb1.sheetnames[sheet_index + 1]
       IN  /\ sheet_name \in Range(wb2.sheetnames)
           /\ stdout' = Append(stdout, <<"Processing sheet", sheet_name>>)
           /\ ws1' = wb1.sheets[sheet_name]
           /\ ws2' = wb2.sheets[sheet_name]
           /\ wb_output' = Append(wb_output,
                  [title |-> sheet_name, cells |-> [p \in {} |-> 0]])
    /\ pc' = "find_rows"
    /\ UNCHANGED <<guiVars, detectVars, wb1, wb2, actual_key_row, actual_key_column, sheet_index,
                   row_matches, column_matches, data_start_row, output_row,
                   output_col, saved, key_column, key_row,
                   simVars, cellVars, alignVars>>

\* line 368
FindMatchingRows ==
    /\ pc = "find_rows"
    /\ row_matches' = find_matching_rows(ws1, ws2, actual_key_column)
    /\ pc' = "find_columns"
    /\ UNCHANGED <<guiVars, detectVars, wb1, wb2, actual_key_row, actual_key_column, sheet_index,
                   column_matches, wb_output, data_start_row, output_row,
                   output_col, stdout, saved,
                   simVars, cellVars, sheetVars, alignVars>>

\* a slip: the column alignment is not computed before the sheet is processed
FindMatchingColumnsSkipped ==
    /\ pc = "find_columns"
    /\ pc' = "check"
    /\ UNCHANGED <<guiVars, detectVars, wb1, wb2, actual_key_row, actual_key_column,
                   sheet_index, row_matches, column_matches, wb_output,
                   data_start_row, output_row, output_col, stdout, saved,
                   simVars, cellVars, sheetVars, alignVars>>

\* line 369
FindMatchingColumns ==
    /\ pc = "find_columns"
    /\ column_matches' = find_matching_columns(ws1, ws2, actual_key_row)
    /\ pc' = "check"
    /\ UNCHANGED <<guiVars, detectVars, wb1, wb2, actual_key_row, actual_key_column, sheet_index,
                   row_matches, wb_output, data_start_row, output_row,
                   output_col, stdout, saved,
                   simVars, cellVars, sheetVars, alignVars>>

\* a slip: break for continue, so that no later sheet is processed
NoRowMatchesBreak ==
    /\ pc = "check"
    /\ DOMAIN row_matches = {}
    /\ stdout' = Append(stdout, <<"Warning: No matching rows found in sheet",
                                  wb1.sheetnames[sheet_index + 1]>>)
    /\ sheet_index' = Len(wb1.sheetnames)
    /\ pc' = "sheets"
    /\ UNCHANGED <<guiVars, detectVars, wb1, wb2, actual_key_row, actual_key_column,
                   row_matches, column_matches, wb_output, data_start_row,
                   output_row, output_col, saved,
                   simVars, cellVars, sheetVars, alignVars>>

\* lines 371-373
NoRowMatches ==
    /\ pc = "check"
    /\ DOMAIN row_matches = {}
    /\ stdout' = Append(stdout, <<"Warning: No matching rows found in sheet",
                                  wb1.sheetnames[sheet_index + 1]>>)
    /\ sheet_index' = sheet_index + 1
    /\ pc' = "sheets"
    /\ UNCHANGED <<guiVars, detectVars, wb1, wb2, actual_key_row, actual_key_column, row_matches,
                   column_matches, wb_output, data_start_row, output_row,
                   output_col, saved,
                   simVars, cellVars, sheetVars, alignVars>>

\* lines 375-377
NoColumnMatches ==
    /\ pc = "check"
    /\ DOMAIN row_matches # {}
    /\ DOMAIN column_matches = {}
    /\ stdout' = Append(stdout, <<"Warning: No matching columns found in sheet",
                                  wb1.sheetnames[sheet_index + 1]>>)
    /\ sheet_index' = sheet_index + 1
    /\ pc' = "sheets"
    /\ UNCHANGED <<guiVars, detectVars, wb1, wb2, actual_key_row, actual_key_column, row_matches,
                   column_matches, wb_output, data_start_row, output_row,
                   output_col, saved,
                   simVars, cellVars, sheetVars, alignVars>>

\* lines 379-434
WriteMappingTables ==
    /\ pc = "check"
    /\ DOMAIN row_matches # {}
    /\ DOMAIN column_matches # {}
    /\ wb_output' = WithOutputCells(MappingTables(ws1, row_matches,
                        column_matches, actual_key_row, actual_key_column))
    /\ data_start_row' = DataStartRow(row_matches, column_matches)
    /\ output_row' = data_start_row'
    /\ output_col' = 1
    /\ pc' = "body"
    /\ UNCHANGED <<guiVars, detectVars, wb1, wb2, actual_key_row, actual_key_column, sheet_index,
                   row_matches, column_matches, stdout, saved,
                   simVars, cellVars, sheetVars, alignVars>>

\* lines 435-472, one cell; after the last one, lines 474-493
CompareCell ==
    /\ pc = "body"
    /\ LET R == Cardinality(DOMAIN row_matches)
           C == Cardinality(DOMAIN column_matches)
           r1 == CHOOSE k \in DOMAIN row_matches :
                     Position(row_matches, k) = output_row - data_start_row + 1
           c1 == CHOOSE k \in DOMAIN column_matches :
                     Position(column_matches, k) = output_col
           cells == BodyCells(ws1, ws2, r1, row_matches[r1],
                              c1, column_matches[c1])
           res == compare_cells(cells[1], cells[2])
           last_col == output_col = C
           last_row == output_row = data_start_row + R - 1
       IN  /\ value1' = cells[1] /\ value2' = cells[2]
           /\ result' = res
           /\ IF res.kind = "raise"
              THEN /\ pc' = "raised"
                   /\ UNCHANGED <<color_fill, wb_output, output_row, output_col,
                                  sheet_index, stdout>>
              ELSE /\ color_fill' = get_cell_color(res)
                   /\ wb_output' = WithOutputCells(
                          (<<output_row, output_col>> :> OutCell(res, color_fill'))
                          @@ ws_output.cells)
                   /\ output_col' = IF last_col /\ ~last_row THEN 1
                                    ELSE output_col + 1
                   /\ output_row' = IF last_col /\ ~last_row THEN output_row + 1
                                    ELSE output_row
                   /\ IF last_col /\ last_row
                      THEN /\ stdout' = Append(stdout,
                                  <<"Processed matched rows in sheet",
                                    wb1.sheetnames[sheet_index + 1]>>)
                           /\ sheet_index' = sheet_index + 1
                           /\ pc' = "sheets"
                      ELSE UNCHANGED <<pc, sheet_index, stdout>>
    /\ UNCHANGED <<guiVars, detectVars, wb1, wb2, actual_key_row, actual_key_column, row_matches,
                   column_matches, data_start_row, saved,
                   simVars, sheetVars, alignVars>>

\* lines 495-497; openpyxl refuses to save a workbook that has no sheet
SaveWorkbook ==
    /\ pc = "sheets"
    /\ sheet_index = Len(wb1.sheetnames)
    /\ IF wb_output = <<>>
       THEN pc' = "raised" /\ UNCHANGED saved
       ELSE pc' = "saved" /\ saved' = TRUE
    /\ UNCHANGED <<guiVars, detectVars, wb1, wb2, actual_key_row, actual_key_column, sheet_index,
                   row_matches, column_matches, wb_output, data_start_row,
                   output_row, output_col, stdout,
                   simVars, cellVars, sheetVars, alignVars>>

NextDiff ==
    \/ LoadWorkbooks \/ SkipSheet \/ OpenSheet
    \/ FindMatchingRows \/ FindMatchingColumns
    \/ NoRowMatches \/ NoColumnMatches \/ WriteMappingTables
    \/ CompareCell \/ SaveWorkbook
SpecDiff == InitDiff /\ [][NextDiff]_vars

(***************************************************************************)
(* SpecGui: run_difference on the main thread and the thread it starts,    *)
(* one statement per step, in every interleaving                           *)
(***************************************************************************)
\* how many times the Run button is followed, and how many lines one call of
\* excel_diff prints at most
MaxRuns == 1
MaxProgress == 2

\* the object run_difference puts in sys.stdout and sys.stderr
console_redirector == "console_redirector"

\* the five lines _run_difference_thread prints before it calls excel_diff
ThreadHeader ==
    <<"Starting Excel difference generation...", "File 1: ", "File 2: ",
      "Output: ", "-----">>

\* the lines of excel_diff: the first is fixed, the others depend on the books
ExcelDiffLine(n) == IF n = 1 THEN "Loading workbooks..." ELSE "Processing sheet"

\* print(line): the stream is looked up in sys.stdout when the call is made;
\* ConsoleRedirector.write inserts the text at the end of the widget
StdoutWrite(line) ==
    IF sys_stdout = console_redirector
    THEN console_text' = Append(console_text, line) /\ UNCHANGED terminal
    ELSE terminal' = Append(terminal, line) /\ UNCHANGED console_text

InitGui ==
    /\ pc = "mainloop"
    /\ IdleGui
    /\ IdleSim /\ IdleCells /\ IdleSheets /\ IdleAlign /\ IdleDiff /\ IdleDetect

\* run_difference up to the console being cleared: a missing path or file
\* ends it with a dialog
RunDifference ==
    /\ pc = "mainloop"
    /\ run_button = "normal"
    /\ runs < MaxRuns
    /\ \E valid \in BOOLEAN :
        IF ~valid
        THEN /\ messagebox' = "showerror"
             /\ UNCHANGED <<pc, run_button, status_var, console_text, runs>>
        ELSE /\ run_button' = "disabled"
             /\ status_var' = "Processing..."
             /\ console_text' = <<>>
             /\ runs' = runs + 1
             /\ pc' = "redirect"
             /\ UNCHANGED messagebox
    /\ UNCHANGED <<sys_stdout, sys_stderr, old_stdout, old_stderr, terminal,
                   thread_pc, thread_line, progress, after_queue>>
    /\ UNCHANGED <<simVars, cellVars, sheetVars, alignVars, diffVars, detectVars>>

\* run_difference: save the two streams and put the redirector in their place
RedirectConsole ==
    /\ pc = "redirect"
    /\ old_stdout' = sys_stdout
    /\ old_stderr' = sys_stderr
    /\ sys_stdout' = console_redirector
    /\ sys_stderr' = console_redirector
    /\ pc' = "start"
    /\ UNCHANGED <<run_button, status_var, messagebox, console_text, terminal,
                   thread_pc, thread_line, progress, after_queue, runs>>
    /\ UNCHANGED <<simVars, cellVars, sheetVars, alignVars, diffVars, detectVars>>

\* run_difference: thread.start(); the thread is not joined
StartThread ==
    /\ pc = "start"
    /\ thread_pc' = "header"
    /\ thread_line' = 0
    /\ progress' = 0
    /\ pc' = "restore_stdout"
    /\ UNCHANGED <<sys_stdout, sys_stderr, old_stdout, old_stderr, run_button,
                   status_var, messagebox, console_text, terminal, after_queue,
                   runs>>
    /\ UNCHANGED <<simVars, cellVars, sheetVars, alignVars, diffVars, detectVars>>

\* run_difference: sys.stdout = old_stdout
RestoreStdout ==
    /\ pc = "restore_stdout"
    /\ sys_stdout' = old_stdout
    /\ pc' = "restore_stderr"
    /\ UNCHANGED <<sys_stderr, old_stdout, old_stderr, run_button, status_var,
                   messagebox, console_text, terminal, thread_pc, thread_line,
                   progress, after_queue, runs>>
    /\ UNCHANGED <<simVars, cellVars, sheetVars, alignVars, diffVars, detectVars>>

\* run_difference: sys.stderr = old_stderr, and back to the event loop
RestoreStderr ==
    /\ pc = "restore_stderr"
    /\ sys_stderr' = old_stderr
    /\ pc' = "mainloop"
    /\ UNCHANGED <<sys_stdout, old_stdout, old_stderr, run_button, status_var,
                   messagebox, console_text, terminal, thread_pc, thread_line,
                   progress, after_queue, runs>>
    /\ UNCHANGED <<simVars, cellVars, sheetVars, alignVars, diffVars, detectVars>>

\* _run_difference_thread: one of its five opening print calls
ThreadPrintHeader ==
    /\ thread_pc = "header"
    /\ thread_line' = thread_line + 1
    /\ StdoutWrite(ThreadHeader[thread_line + 1])
    /\ thread_pc' = IF thread_line + 1 = Len(ThreadHeader)
                    THEN "excel_diff" ELSE "header"
    /\ UNCHANGED <<pc, sys_stdout, sys_stderr, old_stdout, old_stderr,
                   run_button, status_var, messagebox, progress, after_queue,
                   runs>>
    /\ UNCHANGED <<simVars, cellVars, sheetVars, alignVars, diffVars, detectVars>>

\* excel_diff, called by the thread: one of its print calls
ExcelDiffPrints ==
    /\ thread_pc = "excel_diff"
    /\ progress < MaxProgress
    /\ progress' = progress + 1
    /\ StdoutWrite(ExcelDiffLine(progress + 1))
    /\ UNCHANGED <<pc, sys_stdout, sys_stderr, old_stdout, old_stderr,
                   run_button, status_var, messagebox, thread_pc, thread_line,
                   after_queue, runs>>
    /\ UNCHANGED <<simVars, cellVars, sheetVars, alignVars, diffVars, detectVars>>

\* excel_diff returns to the thread
ExcelDiffReturns ==
    /\ thread_pc = "excel_diff"
    /\ progress >= 1
    /\ thread_pc' = "success"
    /\ UNCHANGED <<pc, sys_stdout, sys_stderr, old_stdout, old_stderr,
                   run_button, status_var, messagebox, console_text, terminal,
                   thread_line, progress, after_queue, runs>>
    /\ UNCHANGED <<simVars, cellVars, sheetVars, alignVars, diffVars, detectVars>>

\* excel_diff raises: a book that cannot be loaded, a file that cannot be saved
ExcelDiffRaises ==
    /\ thread_pc = "excel_diff"
    /\ progress >= 1
    /\ thread_pc' = "except"
    /\ UNCHANGED <<pc, sys_stdout, sys_stderr, old_stdout, old_stderr,
                   run_button, status_var, messagebox, console_text, terminal,
                   thread_line, progress, after_queue, runs>>
    /\ UNCHANGED <<simVars, cellVars, sheetVars, alignVars, diffVars, detectVars>>

\* _run_difference_thread after excel_diff returned
ThreadPrintSuccess ==
    /\ thread_pc = "success"
    /\ StdoutWrite("Successfully generated difference file!")
    /\ after_queue' = after_queue \o <<"Completed successfully", "showinfo">>
    /\ thread_pc' = "finally"
    /\ UNCHANGED <<pc, sys_stdout, sys_stderr, old_stdout, old_stderr,
                   run_button, status_var, messagebox, thread_line, progress,
                   runs>>
    /\ UNCHANGED <<simVars, cellVars, sheetVars, alignVars, diffVars, detectVars>>

\* _run_difference_thread: the except branch
ThreadPrintError ==
    /\ thread_pc = "except"
    /\ StdoutWrite("Error: ")
    /\ after_queue' = after_queue \o <<"Error occurred", "showerror">>
    /\ thread_pc' = "finally"
    /\ UNCHANGED <<pc, sys_stdout, sys_stderr, old_stdout, old_stderr,
                   run_button, status_var, messagebox, thread_line, progress,
                   runs>>
    /\ UNCHANGED <<simVars, cellVars, sheetVars, alignVars, diffVars, detectVars>>

\* _run_difference_thread: the finally branch, then the thread ends
ThreadFinally ==
    /\ thread_pc = "finally"
    /\ after_queue' = Append(after_queue, "normal")
    /\ thread_pc' = "ended"
    /\ UNCHANGED <<pc, sys_stdout, sys_stderr, old_stdout, old_stderr,
                   run_button, status_var, messagebox, console_text, terminal,
                   thread_line, progress, runs>>
    /\ UNCHANGED <<simVars, cellVars, sheetVars, alignVars, diffVars, detectVars>>

\* the event loop runs the oldest callback handed to root.after
RunCallback ==
    /\ pc = "mainloop"
    /\ after_queue # <<>>
    /\ LET callback == Head(after_queue)
       IN  /\ status_var' = IF callback \in {"Completed successfully", "Error occurred"}
                            THEN callback ELSE status_var
           /\ messagebox' = IF callback \in {"showinfo", "showerror"}
                            THEN callback ELSE messagebox
           /\ run_button' = IF callback = "normal" THEN "normal" ELSE run_button
    /\ after_queue' = Tail(after_queue)
    /\ UNCHANGED <<pc, sys_stdout, sys_stderr, old_stdout, old_stderr,
                   console_text, terminal, thread_pc, thread_line, progress,
                   runs>>
    /\ UNCHANGED <<simVars, cellVars, sheetVars, alignVars, diffVars, detectVars>>

NextGui ==
    \/ RunDifference \/ RedirectConsole \/ StartThread
    \/ RestoreStdout \/ RestoreStderr
    \/ ThreadPrintHeader \/ ExcelDiffPrints \/ ExcelDiffReturns \/ ExcelDiffRaises
    \/ ThreadPrintSuccess \/ ThreadPrintError \/ ThreadFinally
    \/ RunCallback
SpecGui == InitGui /\ [][NextGui]_vars

(***************************************************************************)
(* Properties of calculate_similarity (SpecSim)                            *)
(***************************************************************************)
\* the words of a key, read off the text: the maximal runs without whitespace
TokenSet(s) ==
    { SubSeq(s, i, j) : <<i, j>> \in
        { p \in (1..Len(s)) \X (1..Len(s)) :
            /\ p[1] <= p[2]
            /\ \A k \in p[1]..p[2] : ~IsSpace(s[k])
            /\ (p[1] = 1 \/ IsSpace(s[p[1] - 1]))
            /\ (p[2] = Len(s) \/ IsSpace(s[p[2] + 1])) } }

Jaccard(s, t) ==
    <<Cardinality(TokenSet(s) \cap TokenSet(t)),
      Cardinality(TokenSet(s) \cup TokenSet(t))>>

\* C3: a normalized key scored against itself gives 1.0, the empty key
\* included, and a non-empty key scored against the empty key gives 0.0.
C3_SelfSimilarityIsOne ==
    pc = "scored" =>
        /\ (text1 = text2 => FloatEq(similarity, One))
        /\ ((text1 = <<>>) # (text2 = <<>>) => FloatEq(similarity, Zero))

\* C4: for two non-empty normalized keys the score is the Jaccard index of
\* their word sets, so it is symmetric and lies in [0,1]; with exactly one
\* key empty it is 0.0.
C4_JaccardOfWordSets ==
    pc = "scored" =>
        /\ (text1 # <<>> /\ text2 # <<>> =>
               /\ FloatEq(similarity, Jaccard(text1, text2))
               /\ FloatEq(similarity, calculate_similarity(text2, text1))
               /\ similarity[2] > 0
               /\ 0 <= similarity[1] /\ similarity[1] <= similarity[2])
        /\ ((text1 = <<>>) # (text2 = <<>>) => FloatEq(similarity, Zero))

\* two different keys with the same word set, one of them repeating a word
C4_Witness ==
    /\ pc = "scored"
    /\ text1 # text2
    /\ Len(text1) > Len(text2) /\ text2 # <<>>
    /\ TokenSet(text1) = TokenSet(text2)
    /\ FloatEq(similarity, One)

(***************************************************************************)
(* Properties of find_matching_rows and find_matching_columns (SpecAlign)  *)
(***************************************************************************)
InRows == pc \in {"rows_exact", "rows_fuzzy", "rows_done"}
InCols == pc \in {"cols_exact", "cols_fuzzy", "cols_done"}
\* the keys of the two sheets and the used set of the call that is running
Keys1 == IF InRows THEN ws1_rows ELSE ws1_cols
Keys2 == IF InRows THEN ws2_rows ELSE ws2_cols
Used == IF InRows THEN used_ws2_rows ELSE used_ws2_cols

\* C1: after every step of either pass, and in the result, the mapping is an
\* injective partial mapping from the participating indices of sheet A to
\* those of sheet B: no index of B is the target of two indices of A.
C1_Injective ==
    InRows \/ InCols =>
        /\ \A a, b \in DOMAIN matches : a # b => matches[a] # matches[b]
        /\ DOMAIN matches \subseteq DOMAIN Keys1
        /\ Range(matches) \subseteq DOMAIN Keys2
        /\ Used = Range(matches)

\* two rows of A with the same key, both mapped, to two different rows of B
C1_Witness ==
    /\ pc = "rows_done"
    /\ DOMAIN matches = {1, 2}
    /\ ws1_rows[1] = ws1_rows[2]
    /\ matches[1] # matches[2]
    /\ last_match = "fuzzy"

\* C2: the exact pass has priority: from the end of the exact pass on, so
\* whenever a fuzzy match is committed, no unmapped index of A and unused
\* index of B have identical normalized keys.
C2_ExactPriority ==
    pc \in {"rows_fuzzy", "rows_done", "cols_fuzzy", "cols_done"} =>
        \A i \in DOMAIN Keys1 \ DOMAIN matches :
            \A j \in DOMAIN Keys2 \ Used : Keys1[i] # Keys2[j]

\* row 1 of A reaches the threshold with the row of B that row 2 of A matches
\* exactly; row 2 has it, and row 1 was given another row by the fuzzy pass
C2_Witness ==
    /\ pc = "rows_done"
    /\ DOMAIN matches = {1, 2}
    /\ ws1_rows[2] = ws2_rows[matches[2]]
    /\ ws1_rows[1] # ws2_rows[matches[1]]
    /\ ws1_rows[1] # ws2_rows[matches[2]]
    /\ FloatGe(calculate_similarity(ws1_rows[1], ws2_rows[matches[2]]),
               MinSimilarity)

\* the index of sheet A that the next step of the running pass handles: the
\* lowest one after the one handled last
Cursor == IF InRows THEN row1 ELSE col1
NextIndex == Min({k \in DOMAIN Keys1 : k > Cursor})
\* the step maps index a of sheet A to index b of sheet B and changes nothing else
Commits(a, b) ==
    /\ DOMAIN matches' = DOMAIN matches \cup {a}
    /\ matches'[a] = b
    /\ \A x \in DOMAIN matches \ {a} : matches'[x] = matches[x]
    /\ Used' = Used \cup {b}
\* the step maps nothing
CommitsNothing == matches' = matches /\ Used' = Used

\* C14: each step of the exact pass handles the lowest index of sheet A not
\* handled yet, and maps it to the lowest index of sheet B that is not used
\* and has an identical normalized key, which it marks used; without such an
\* index the step maps nothing.
ExactStepAsClaimed ==
    pc \in {"rows_exact", "cols_exact"} =>
        LET a == NextIndex
            Same == {j \in DOMAIN Keys2 \ Used : Keys2[j] = Keys1[a]}
        IN  /\ a \notin DOMAIN matches
            /\ IF Same = {} THEN CommitsNothing ELSE Commits(a, Min(Same))
            /\ pc' = pc => Cursor' = a
C14_ExactLowestUnused == [][ExactStepAsClaimed]_vars

\* the second of two rows of A with the same key took the second of two rows
\* of B with that key, the first one being used
C14_Witness ==
    /\ pc = "rows_fuzzy"
    /\ DOMAIN matches = {1, 2}
    /\ matches[1] = 1 /\ matches[2] = 2
    /\ ws1_rows[1] = ws1_rows[2]
    /\ ws2_rows[1] = ws2_rows[2]

\* the similarity of the key of index a of sheet A and of index b of sheet B
KeySimilarity(a, b) == calculate_similarity(Keys1[a], Keys2[b])

\* C15: each step of the fuzzy pass handles the lowest index of sheet A not
\* handled yet; if the exact pass left it unmapped, it is mapped to the
\* unused index of sheet B of the largest similarity, the lowest of several,
\* provided that similarity is at least 0.8, and to nothing otherwise.  So
\* every pair of the mapping has identical keys or a similarity >= 0.8.
PairsReachThreshold ==
    InRows \/ InCols =>
        \A a \in DOMAIN matches :
            \/ Keys1[a] = Keys2[matches[a]]
            \/ FloatGe(KeySimilarity(a, matches[a]), MinSimilarity)
FuzzyStepAsClaimed ==
    pc \in {"rows_fuzzy", "cols_fuzzy"} =>
        LET a == NextIndex
            Free == DOMAIN Keys2 \ Used
            Best == {j \in Free :
                        /\ FloatGe(KeySimilarity(a, j), MinSimilarity)
                        /\ \A i \in Free :
                              FloatGe(KeySimilarity(a, j), KeySimilarity(a, i))}
        IN  /\ IF a \in DOMAIN matches \/ Best = {}
               THEN CommitsNothing
               ELSE Commits(a, Min(Best))
            /\ pc' = pc => Cursor' = a
C15_FuzzyBestAboveThreshold ==
    []PairsReachThreshold /\ [][FuzzyStepAsClaimed]_vars

\* a row of A took the second row of B, more similar than the first, although
\* the first reaches the threshold too
C15_Witness ==
    /\ pc = "rows_done"
    /\ last_match = "fuzzy"
    /\ DOMAIN matches = {1}
    /\ matches[1] = 2
    /\ 1 \in DOMAIN ws2_rows
    /\ FloatGe(calculate_similarity(ws1_rows[1], ws2_rows[1]), MinSimilarity)
    /\ FloatGt(calculate_similarity(ws1_rows[1], ws2_rows[2]),
               calculate_similarity(ws1_rows[1], ws2_rows[1]))

\* x + y for two floats
FloatAdd(x, y) == <<x[1] * y[2] + y[1] * x[2], x[2] * y[2]>>
\* the total similarity of the pairs of a mapping m, over its indices S
RECURSIVE TotalSimilarity(_, _)
TotalSimilarity(m, S) ==
    IF S = {} THEN Zero
    ELSE LET a == Min(S)
         IN  FloatAdd(KeySimilarity(a, m[a]), TotalSimilarity(m, S \ {a}))
\* the injective mappings between the participating indices whose pairs all
\* reach the threshold
ThresholdMappings ==
    { m \in UNION {[D -> DOMAIN Keys2] : D \in SUBSET DOMAIN Keys1} :
        /\ \A a, b \in DOMAIN m : a # b => m[a] # m[b]
        /\ \A a \in DOMAIN m : FloatGe(KeySimilarity(a, m[a]), MinSimilarity) }
\* another such mapping has more pairs and a larger total similarity
Beaten ==
    \E m \in ThresholdMappings :
        /\ Cardinality(DOMAIN m) > Cardinality(DOMAIN matches)
        /\ FloatGt(TotalSimilarity(m, DOMAIN m),
                   TotalSimilarity(matches, DOMAIN matches))
\* a sheet with its rows in the opposite order
RowsReversed(ws) ==
    Worksheet(ws.max_row, ws.max_column,
        [p \in DOMAIN ws.cells |-> ws.cells[<<ws.max_row + 1 - p[1], p[2]>>]])
\* the pairs of normalized keys that an alignment of the rows of w1 and w2 matches
MatchedKeyPairs(w1, w2, m) ==
    { <<normalize_text(CellValue(w1, a, key_column)),
        normalize_text(CellValue(w2, m[a], key_column))>> : a \in DOMAIN m }
\* the same rows of sheet A, given in the opposite order, match other keys
OrderDependent ==
    MatchedKeyPairs(ws1, ws2, matches) #
        MatchedKeyPairs(RowsReversed(ws1), ws2,
                        find_matching_rows(RowsReversed(ws1), ws2, key_column))
\* rows "a b c d e", "a b c d f" of sheet A against rows "a b c d", "b c d e"
\* of sheet B: the first row of A reaches 0.8 with both rows of B, the second
\* with the first row of B only
GreedyInput ==
    /\ pc = "rows_done"
    /\ ws1_rows = <<<<"a", " ", "b", " ", "c", " ", "d", " ", "e">>,
                    <<"a", " ", "b", " ", "c", " ", "d", " ", "f">>>>
    /\ ws2_rows = <<<<"a", " ", "b", " ", "c", " ", "d">>,
                    <<"b", " ", "c", " ", "d", " ", "e">>>>

\* C16: the alignment is greedy, order-dependent and not optimal: for the
\* rows of GreedyInput, find_matching_rows returns one pair, the first row of
\* A with the first row of B, although another injective mapping has two
\* pairs that reach the threshold and a larger total similarity; and with the
\* two rows of A in the opposite order another set of key pairs is matched.
C16_GreedyNotOptimal ==
    GreedyInput =>
        /\ matches = (1 :> 1)
        /\ Beaten
        /\ OrderDependent

C16_Witness ==
    /\ GreedyInput
    /\ Cardinality(DOMAIN matches) = 1
    /\ Cardinality(ThresholdMappings) > 1

\* a sheet with rows and columns exchanged
Transpose(ws) ==
    Worksheet(ws.max_column, ws.max_row,
        [p \in {<<q[2], q[1]>> : q \in DOMAIN ws.cells} |-> ws.cells[<<p[2], p[1]>>]])

\* C17: columns are aligned as rows are: the result of find_matching_columns
\* on two sheets with key row k is that of find_matching_rows on the
\* transposed sheets with key column k, and the other way round.
C17_ColumnsAsRowsTransposed ==
    /\ pc = "cols_done" =>
          matches = find_matching_rows(Transpose(ws1), Transpose(ws2), key_row)
    /\ pc = "rows_done" =>
          matches = find_matching_columns(Transpose(ws1), Transpose(ws2), key_column)

\* a column alignment on key row 2 with an exact and a fuzzy pair
C17_Witness ==
    /\ pc = "cols_done"
    /\ key_row = 2
    /\ last_match = "fuzzy"
    /\ Cardinality(DOMAIN matches) = 2
    /\ \E c \in DOMAIN matches : ws1_cols[c] = ws2_cols[matches[c]]

\* a key cell that holds a value whose string form is not blank
PresentNonBlank(v) == v.kind # "none" /\ Strip(Str(v)) # <<>>

\* C18: an index takes part in the alignment exactly when its key cell holds
\* a value, text or number, whose string form is not blank; the mapping
\* holds no other index, neither on the side of A nor on the side of B.
C18_NonBlankKeysParticipate ==
    /\ InRows =>
          /\ DOMAIN ws1_rows = {r \in 1..ws1.max_row :
                                  PresentNonBlank(CellValue(ws1, r, key_column))}
          /\ DOMAIN ws2_rows = {r \in 1..ws2.max_row :
                                  PresentNonBlank(CellValue(ws2, r, key_column))}
    /\ InCols =>
          /\ DOMAIN ws1_cols = {c \in 1..ws1.max_column :
                                  PresentNonBlank(CellValue(ws1, key_row, c))}
          /\ DOMAIN ws2_cols = {c \in 1..ws2.max_column :
                                  PresentNonBlank(CellValue(ws2, key_row, c))}
    /\ InRows \/ InCols =>
          /\ DOMAIN matches \subseteq DOMAIN Keys1
          /\ Range(matches) \subseteq DOMAIN Keys2

\* the key cell of index i of sheet ws for the call that is running
KeyCell(ws, i) ==
    IF InRows THEN CellValue(ws, i, key_column) ELSE CellValue(ws, key_row, i)
\* the indices of sheet ws for the call that is running
Indices(ws) == IF InRows THEN 1..ws.max_row ELSE 1..ws.max_column

\* C21: the mapping returned is maximal for the threshold: no index of sheet
\* A with a non-blank key that is left unmapped and index of sheet B with a
\* non-blank key that is left unused have identical normalized keys or a
\* similarity >= 0.8.
C21_Maximal ==
    pc \in {"rows_done", "cols_done"} =>
        \A i \in Indices(ws1) \ DOMAIN matches :
            \A j \in Indices(ws2) \ Range(matches) :
                PresentNonBlank(KeyCell(ws1, i)) /\ PresentNonBlank(KeyCell(ws2, j)) =>
                    LET k1 == normalize_text(KeyCell(ws1, i))
                        k2 == normalize_text(KeyCell(ws2, j))
                    IN  /\ k1 # k2
                        /\ ~FloatGe(calculate_similarity(k1, k2), MinSimilarity)

(***************************************************************************)
(* Properties of excel_diff (SpecDiff)                                     *)
(***************************************************************************)
\* the k-th smallest key of a mapping
NthKey(m, k) ==
    CHOOSE a \in DOMAIN m : Cardinality({x \in DOMAIN m : x < a}) = k - 1

\* the body the claim describes for one sheet, given the two alignments:
\* position (i, j) of the body, which starts at output row R + C + 8, holds
\* the diff of A[i-th matched row, j-th matched column] and the B cell that
\* the two alignments map it to
ExpectedBody(s1, s2, rm, cm) ==
    LET R == Cardinality(DOMAIN rm)
        C == Cardinality(DOMAIN cm)
        first == R + C + 8
    IN  [p \in (first..(first + R - 1)) \X (1..C) |->
            LET a == NthKey(rm, p[1] - first + 1)
                c == NthKey(cm, p[2])
            IN  compare_cells(CellValue(s1, a, c), CellValue(s2, rm[a], cm[c]))]

\* the cells of an output sheet below its separator line
BodyOf(sheet, rm, cm) ==
    LET first == Cardinality(DOMAIN rm) + Cardinality(DOMAIN cm) + 8
    IN  [p \in {q \in DOMAIN sheet.cells : q[1] >= first - 1} |->
            sheet.cells[p].value]

\* whether every cell of output sheet k has been written
SheetFinished(k) == k < Len(wb_output) \/ pc \in {"sheets", "saved"}

SameKeyColumn(s1, s2, keycol) ==
    /\ s1.max_row = s2.max_row
    /\ \A r \in 1..s1.max_row : CellValue(s1, r, keycol) = CellValue(s2, r, keycol)

\* C10: for a sheet whose two alignments are not empty, the body that
\* excel_diff writes is the cross product of the matched rows and the matched
\* columns in ascending order of their sheet-A index, each cell the
\* compare_cells of the A cell and of the B cell the alignments pair it with;
\* unmatched rows and columns give no body cell; and a key column that is
\* the same in both sheets is aligned by the identity.
C10_BodyIsCrossProduct ==
    \A k \in 1..Len(wb_output) :
        LET s1 == wb1.sheets[wb_output[k].title]
            s2 == wb2.sheets[wb_output[k].title]
            rm == find_matching_rows(s1, s2, actual_key_column)
            cm == find_matching_columns(s1, s2, actual_key_row)
            body == BodyOf(wb_output[k], rm, cm)
            expected == ExpectedBody(s1, s2, rm, cm)
        IN  DOMAIN rm # {} /\ DOMAIN cm # {} =>
              /\ DOMAIN body \subseteq DOMAIN expected
              /\ \A p \in DOMAIN body : body[p] = expected[p]
              /\ SheetFinished(k) => DOMAIN body = DOMAIN expected
              /\ SameKeyColumn(s1, s2, actual_key_column) =>
                    /\ DOMAIN rm = DOMAIN CollectRows(s1, actual_key_column)
                    /\ \A r \in DOMAIN rm : rm[r] = r

\* the workbooks of the test: key 2 of A and key 5 of B have no match, so the
\* 3 x 3 body holds the header row and the rows of keys 1 and 3
C10_Witness ==
    /\ pc = "saved"
    /\ Len(wb_output) = 1
    /\ DOMAIN row_matches = {1, 2, 4}
    /\ DOMAIN column_matches = {1, 2, 3}
    /\ wb_output[1].cells[<<14, 1>>].value = PyStr(<<"A">>)
    /\ wb_output[1].cells[<<15, 2>>].value = Apple
    /\ wb_output[1].cells[<<16, 1>>].value = PyInt(0)
    /\ wb_output[1].cells[<<16, 2>>].value = Cherry
    /\ <<17, 1>> \notin DOMAIN wb_output[1].cells

\* a body whose rows are not aligned by the identity
C10_Permuted ==
    /\ pc = "saved"
    /\ \E r \in DOMAIN row_matches : row_matches[r] # r
    /\ \E q \in DOMAIN wb_output[1].cells : q[1] >= data_start_row

(***************************************************************************)
(* Properties of compare_cells and get_cell_color (SpecCells)              *)
(***************************************************************************)
Returned == pc \in {"color", "classified"}
BothPresent == value1 # None /\ value2 # None
OneAbsent == (value1 = None) # (value2 = None)

\* a number, or a string of decimal digits
IsNumberOrDigits(v) == v.kind = "num" \/ (v.kind = "str" /\ AllDigits(v.chars))
NumberOf(v) == IF v.kind = "num" THEN v.num ELSE DigitsValue(v.chars)

\* the presentation of the severities: match, major / text-mismatch, minor
SeverityColor(diff) ==
    IF diff = 0 THEN LightGreen
    ELSE IF Abs(diff) > 100 THEN LightRed
    ELSE LightOrange

\* C5: two present numeric values give diff = numeric(B) - numeric(A), shown
\* as match iff the diff is 0, as major iff |diff| > 100, as minor otherwise.
C5_NumericDiffAndSeverity ==
    BothPresent /\ IsNumberOrDigits(value1) /\ IsNumberOrDigits(value2) =>
        /\ pc # "raised"
        /\ (Returned => result = PyInt(NumberOf(value2) - NumberOf(value1)))
        /\ (pc = "classified" =>
               color_fill = SeverityColor(NumberOf(value2) - NumberOf(value1)))

\* a digit string against a number, exactly on the threshold: still minor
C5_Witness ==
    /\ pc = "classified"
    /\ value1.kind = "str" /\ value2.kind = "num"
    /\ result = PyInt(100)
    /\ color_fill = LightOrange

\* C6: two present values, at least one of them non-numeric: equal string
\* forms give that string and are not shown as a text mismatch; different
\* string forms give "A <--> B", shown as a text mismatch.
C6_TextCompare ==
    pc = "classified" /\ BothPresent
      /\ ~(is_numeric(value1) /\ is_numeric(value2)) =>
        IF Str(value1) = Str(value2)
        THEN result = PyStr(Str(value1)) /\ color_fill # LightRed
        ELSE /\ result = PyStr(Str(value1) \o ArrowSep \o Str(value2))
             /\ color_fill = LightRed

\* C7: with exactly one value absent, a numeric present value (a digit
\* string included) gives the number B, or -A; a text gives B, or "A <--> ".
C7_OneSidedDiff ==
    OneAbsent /\ pc # "compare" =>
        IF value1 = None
        THEN result = (IF is_numeric(value2) THEN PyInt(Float(value2))
                       ELSE PyStr(Str(value2)))
        ELSE result = (IF is_numeric(value1) THEN PyInt(-Float(value1))
                       ELSE PyStr(Str(value1) \o ArrowSep))

C9_NeverRaises == pc # "raised" /\ result.kind # "raise"

(***************************************************************************)
(* Properties of detect_key_row_column (SpecDetect)                        *)
(***************************************************************************)
\* a cell that holds a value which does not read as a number
PresentText(v) == v.kind = "str" /\ v.chars # <<>> /\ ~FloatParses(v.chars)
TextInRow(ws, r) == Cardinality({c \in 1..ws.max_column : PresentText(CellValue(ws, r, c))})
TextInCol(ws, c) == Cardinality({r \in 1..ws.max_row : PresentText(CellValue(ws, r, c))})
\* row 1 holds text only, every other row holds numbers or digit strings only
HeaderOverNumbers(ws) ==
    /\ \A c \in 1..ws.max_column : PresentText(CellValue(ws, 1, c))
    /\ \A r \in 2..ws.max_row : \A c \in 1..ws.max_column :
            is_numeric(CellValue(ws, r, c))

\* C11: detect_key_row_column returns the row with the largest number of
\* present non-numeric cells and, independently, the column with the largest
\* number of them, the lowest index among equals; a grid of text headers in
\* row 1 over numeric rows gives key row 1.
C11_MostTextLowestIndex ==
    pc = "detected" =>
        /\ best_row \in 1..ws1.max_row
        /\ best_col \in 1..ws1.max_column
        /\ \A r \in 1..ws1.max_row :
              /\ TextInRow(ws1, r) <= TextInRow(ws1, best_row)
              /\ r < best_row => TextInRow(ws1, r) < TextInRow(ws1, best_row)
        /\ \A c \in 1..ws1.max_column :
              /\ TextInCol(ws1, c) <= TextInCol(ws1, best_col)
              /\ c < best_col => TextInCol(ws1, c) < TextInCol(ws1, best_col)
        /\ HeaderOverNumbers(ws1) => best_row = 1

\* a tie between two rows resolved to the first, while the column chosen is
\* not the first: the two choices are made independently
C11_Witness ==
    /\ pc = "detected"
    /\ best_row = 1 /\ best_col = 2
    /\ TextInRow(ws1, 1) = TextInRow(ws1, 2)
    /\ TextInRow(ws1, 1) > 0

(***************************************************************************)
(* Properties of the sheet loop of excel_diff (SpecDiff)                   *)
(***************************************************************************)
\* the two source sheets and the two alignments of output sheet k
SourceA(k) == wb1.sheets[wb_output[k].title]
SourceB(k) == wb2.sheets[wb_output[k].title]
RowAlignment(k) == find_matching_rows(SourceA(k), SourceB(k), actual_key_column)
ColAlignment(k) == find_matching_columns(SourceA(k), SourceB(k), actual_key_row)
EmptyAlignment(k) == DOMAIN RowAlignment(k) = {} \/ DOMAIN ColAlignment(k) = {}
\* the names of wb1 that wb2 has too, in the order of wb1
CommonNames == SelectSeq(wb1.sheetnames, LAMBDA n : n \in Range(wb2.sheetnames))
\* what excel_diff writes for a pair of sheets whose alignments are not empty
\* with alignments rm and cm
ExpectedCells(k, rm, cm) ==
    LET body == ExpectedBody(SourceA(k), SourceB(k), rm, cm)
    IN  [p \in DOMAIN body |-> OutCell(body[p], get_cell_color(body[p]))]
        @@ MappingTables(SourceA(k), rm, cm, actual_key_row, actual_key_column)
\* the warning that names sheet k, whose row alignment is rm
Warned(k, rm) ==
    \E i \in 1..Len(stdout) :
        stdout[i] = <<IF DOMAIN rm = {}
                      THEN "Warning: No matching rows found in sheet"
                      ELSE "Warning: No matching columns found in sheet",
                      wb_output[k].title>>

\* C12: a sheet whose row alignment or column alignment is empty gets a
\* warning and neither mapping table nor body, raises nothing, and every
\* later sheet common to both workbooks is processed as it is without it:
\* the output holds the common sheets in the order of wb1, each with the
\* tables and the body of its own two source sheets.
C12_EmptyAlignmentSkipped ==
    /\ \A k \in 1..Len(wb_output) :
          LET rm == RowAlignment(k)
              cm == ColAlignment(k)
          IN  IF DOMAIN rm = {} \/ DOMAIN cm = {}
              THEN /\ DOMAIN wb_output[k].cells = {}
                   /\ SheetFinished(k) => Warned(k, rm)
                   /\ k = Len(wb_output) => pc # "raised"
              ELSE SheetFinished(k) =>
                      wb_output[k].cells = ExpectedCells(k, rm, cm)
    /\ pc \in {"sheets", "saved"} =>
          /\ Len(wb_output) = Cardinality({i \in 1..sheet_index :
                wb1.sheetnames[i] \in Range(wb2.sheetnames)})
          /\ \A k \in 1..Len(wb_output) : wb_output[k].title = CommonNames[k]
    /\ pc = "saved" => Len(wb_output) = Len(CommonNames)

\* a sheet without a matching row, skipped with its warning, followed by the
\* sheet of the test, processed in full
C12_Witness ==
    /\ pc = "saved"
    /\ Len(wb_output) = 2
    /\ EmptyAlignment(1) /\ Warned(1, RowAlignment(1))
    /\ DOMAIN wb_output[1].cells = {}
    /\ ~EmptyAlignment(2)
    /\ <<16, 3>> \in DOMAIN wb_output[2].cells

\* C13: a sheet name that only one of the two workbooks has is skipped, the
\* other sheets are processed, and a warning names the skipped sheet.
C13_AbsentSheetWarned ==
    \A i \in 1..sheet_index :
        LET sheet_name == wb1.sheetnames[i]
        IN  sheet_name \notin Range(wb2.sheetnames) =>
              /\ \A k \in 1..Len(wb_output) : wb_output[k].title # sheet_name
              /\ \E j \in 1..Len(stdout) : stdout[j][2] = sheet_name

\* both alignments of the sheet being processed are those of its two sources
Aligned ==
    /\ row_matches = find_matching_rows(ws1, ws2, actual_key_column)
    /\ column_matches = find_matching_columns(ws1, ws2, actual_key_row)
AlignedBeforeBody == pc \in {"check", "body"} => Aligned
ClassifiesAligned ==
    CompareCell =>
        /\ Aligned
        /\ row_matches' = row_matches
        /\ column_matches' = column_matches

\* C19: within a sheet the row alignment and the column alignment are both
\* complete before the first compare_cells call of the sheet, and no
\* compare_cells step changes either of them.
C19_AlignedBeforeClassified ==
    []AlignedBeforeBody /\ [][ClassifiesAligned]_vars

\* between two cells of the body of a sheet with several matched rows
C19_Witness ==
    /\ pc = "body"
    /\ output_col = 2
    /\ output_row = data_start_row + 1
    /\ result.kind = "num"
    /\ Cardinality(DOMAIN row_matches) > 1

\* whether the mapping tables of output sheet k have been written
TablesWritten(k) ==
    \/ k < Len(wb_output)
    \/ pc \in {"body", "sheets", "saved"}
    \/ pc = "raised" /\ wb_output # <<>>
\* the value of a cell of output sheet k, Unset where nothing was written
Written(k, r, c) ==
    IF <<r, c>> \in DOMAIN wb_output[k].cells
    THEN wb_output[k].cells[<<r, c>>].value ELSE Unset

ThreadPrinting == thread_pc \in {"header", "excel_diff", "success", "except"}

\* C22: every line the thread started by run_difference prints is written to
\* the console widget: sys.stdout is the ConsoleRedirector whenever that
\* thread prints, so none of its lines is on the stream sys.stdout started as.
C22_ThreadPrintsToConsole ==
    /\ terminal = <<>>
    /\ ThreadPrinting => sys_stdout = console_redirector

====
